---------------------------- MODULE Spec2Model ----------------------------
(***************************************************************************)
(* Model of the nautobot-ssot development task runner (tasks.py) and of    *)
(* schema migration 0003 of the nautobot_ssot app.                         *)
(*                                                                         *)
(* Python strings whose characters matter (the argument of is_truthy, the  *)
(* stdout of `docker compose ps --services`) are sequences of one-character*)
(* strings.  A command line is a sequence of tokens that Python joins with *)
(* a blank; a token is the sequence of the pieces an f-string concatenates.*)
(***************************************************************************)
EXTENDS Integers, Sequences, FiniteSets, TLC

VARIABLES
    arg,            \* is_truthy: the argument of the call under study
    ret,            \* is_truthy: outcome of that call
    schemas,        \* migration: schema states, the starting one first
    local,          \* context.nautobot_ssot.local
    compose_files,  \* context.nautobot_ssot.compose_files
    task,           \* the invoked task and its arguments
    pc,             \* position of the running task
    log,            \* every context.run call made so far, in order
    err,            \* the exception that ended the task, "none" if none
    seen,           \* stdout of the `ps --services` query of run_command
    polls           \* number of health polls made by _await_healthy_container

vars == <<arg, ret, schemas, local, compose_files, task, pc, log, err, seen, polls>>

truthyVars == <<arg, ret>>
migrationVars == <<schemas>>
taskVars == <<local, compose_files, task, pc, log, err, seen, polls>>

-----------------------------------------------------------------------------
(* Bounds *)

\* longest enumerated is_truthy argument (over TruthyAlphabet)
MaxArgLen == 2
\* most applications of the migration in one behaviour
MaxApply == 2
\* most health polls in one behaviour
MaxPolls == 2

-----------------------------------------------------------------------------
(* Strings as character sequences *)

IsPrefixAt(needle, hay, i) ==
    \A k \in 1..Len(needle) : hay[i + k - 1] = needle[k]

\* Python `needle in hay` for two strings
Contains(needle, hay) ==
    \E i \in 1..(Len(hay) - Len(needle) + 1) : IsPrefixAt(needle, hay, i)

\* str.lower() on the characters the model uses
LowerChar(c) ==
    CASE c = "Y" -> "y"
      [] c = "E" -> "e"
      [] c = "S" -> "s"
      [] c = "T" -> "t"
      [] c = "R" -> "r"
      [] c = "U" -> "u"
      [] c = "O" -> "o"
      [] c = "N" -> "n"
      [] c = "F" -> "f"
      [] c = "A" -> "a"
      [] c = "L" -> "l"
      [] OTHER -> c

Lower(s) == [i \in 1..Len(s) |-> LowerChar(s[i])]

-----------------------------------------------------------------------------
(* is_truthy *)

\* A Python value passed to is_truthy: a bool or a str
Bool(b) == [kind |-> "bool", b |-> b, s |-> <<>>]
Str(s) == [kind |-> "str", b |-> FALSE, s |-> s]

TrueStrings ==
    { <<"y">>, <<"y","e","s">>, <<"t">>, <<"t","r","u","e">>, <<"o","n">>, <<"1">> }

FalseStrings ==
    { <<"n">>, <<"n","o">>, <<"f">>, <<"f","a","l","s","e">>, <<"o","f","f">>, <<"0">> }

Returned(b) == [raised |-> "none", value |-> b]
Raised(e) == [raised |-> e, value |-> FALSE]

is_truthy_no_lower(a) ==
    IF a.kind = "bool" THEN Returned(a.b)
    ELSE IF a.s \in TrueStrings THEN Returned(TRUE)
    ELSE IF a.s \in FalseStrings THEN Returned(FALSE)
    ELSE Raised("ValueError: Invalid truthy value")

is_truthy(a) ==
    IF a.kind = "bool" THEN Returned(a.b)
    ELSE LET val == Lower(a.s) IN
         IF val \in TrueStrings THEN Returned(TRUE)
         ELSE IF val \in FalseStrings THEN Returned(FALSE)
         ELSE Raised("ValueError: Invalid truthy value")

TruthyAlphabet == {"y", "Y", "n", "N", "o", "O", "1", "0", " ", "t", "f"}

SeqsUpTo(S, n) == UNION { [1..k -> S] : k \in 0..n }

\* spellings, casings, padded and near-miss strings
TruthyWords ==
    { <<"y","e","s">>, <<"Y","E","S">>, <<"Y","e","s">>, <<"t","r","u","e">>,
      <<"T","r","u","e">>, <<"T","R","U","E">>, <<"f","a","l","s","e">>,
      <<"F","a","l","s","e">>, <<"F","A","L","S","E">>, <<"o","f","f">>,
      <<"O","F","F">>, <<"O","f","f">>, <<"t","r","u">>, <<"y","e","a","h">>,
      <<"n","o","n","e">>, <<"N","o","n","e">>, <<"y","e","s"," ">>,
      <<" ","y","e","s">>, <<"t","r","u","e"," ">>, <<"2">>, <<"1","0">>,
      <<"e","n","a","b","l","e">>, <<"o","k">>, <<"n","o","t">>,
      <<"f","a","l","s","e","y">>, <<"o","n","e">> }

TruthyArgs ==
    { Bool(TRUE), Bool(FALSE) }
    \cup { Str(s) : s \in SeqsUpTo(TruthyAlphabet, MaxArgLen) \cup TruthyWords }

NotCalled == [raised |-> "pending", value |-> FALSE]

\* one call is_truthy(arg)
CallIsTruthy ==
    /\ ret = NotCalled
    /\ ret' = is_truthy(arg)
    /\ UNCHANGED <<arg, migrationVars, taskVars>>


-----------------------------------------------------------------------------
(* Migration 0003_alter_synclogentry_textfields *)

\* a Django model field; max_length 0 stands for None
Field(type, blank, default, editable, max_length) ==
    [type |-> type, blank |-> blank, default |-> default,
     editable |-> editable, max_length |-> max_length]

\* models.TextField(blank=...), the other options at Django's defaults
TextField(blank) == Field("TextField", blank, "NOT_PROVIDED", TRUE, 0)

\* models.TextField(blank=..., default=..., editable=...)
TextFieldWith(blank, default, editable) ==
    Field("TextField", blank, default, editable, 0)

FieldNames == {"message", "object_repr"}

\* migrations.AlterField(model_name="synclogentry", name=..., field=...):
\* the named field of the model takes the given definition
AlterField(state, name, field) == [state EXCEPT ![name] = field]

operations_editable ==
    << <<"message", TextField(TRUE)>>,
       <<"object_repr", TextFieldWith(TRUE, "", TRUE)>> >>

operations ==
    << <<"message", TextField(TRUE)>>,
       <<"object_repr", TextFieldWith(TRUE, "", FALSE)>> >>

RECURSIVE ApplyOperations(_, _)
ApplyOperations(state, ops) ==
    IF ops = <<>> THEN state
    ELSE ApplyOperations(AlterField(state, Head(ops)[1], Head(ops)[2]), Tail(ops))

\* the migration's effect on the schema state of SyncLogEntry
Migration(state) == ApplyOperations(state, operations)

\* field definitions a SyncLogEntry column may have before the migration
FieldDefs ==
    { Field(t, b, d, e, m) :
        t \in {"CharField", "TextField"}, b \in BOOLEAN,
        d \in {"NOT_PROVIDED", ""}, e \in BOOLEAN, m \in {0, 255} }

SchemaStates == [FieldNames -> FieldDefs]

\* the migration runner applies the migration to the current schema state
ApplyMigration ==
    /\ Len(schemas) <= MaxApply
    /\ schemas' = Append(schemas, Migration(schemas[Len(schemas)]))
    /\ UNCHANGED <<truthyVars, taskVars>>

-----------------------------------------------------------------------------
(* Command lines *)

\* a token made of one literal string
T(s) == <<s>>

\* a token is empty when every piece of it is the empty string
IsEmptyToken(t) == \A i \in 1..Len(t) : t[i] = ""

\* the tokens of a command line that contribute text to it
Words(line) == SelectSeq(line, LAMBDA t : ~IsEmptyToken(t))

\* a compose file name, f"docker-compose.{name}.yml"
ComposeFile(name) == <<"docker-compose.", name, ".yml">>

\* compose_files as configured by default, and as invoke.yml may override it
DefaultComposeFiles ==
    << ComposeFile("base"), ComposeFile("redis"), ComposeFile("postgres"),
       ComposeFile("dev") >>

ComposeFileLists ==
    { DefaultComposeFiles,
      << ComposeFile("base"), ComposeFile("redis"), ComposeFile("mysql"),
         ComposeFile("dev") >>,
      << ComposeFile("base"), ComposeFile("redis"), ComposeFile("dev") >>,
      << ComposeFile("base"), ComposeFile("postgres"), ComposeFile("mysql") >>,
      << >> }

_is_compose_included(files, name) ==
    \E i \in 1..Len(files) : files[i] = ComposeFile(name)

\* the command line docker_compose() hands to context.run; service is <<>>
\* when the keyword is absent (None) and <<T(s)>> when it is passed
docker_compose(files, command, service) ==
    << T("docker compose"),
       <<"--project-name ", "nautobot-ssot">>,
       <<"--project-directory \"", "development", "\"">> >>
    \o [i \in 1..Len(files) |-> <<" -f \"", "development/">> \o files[i] \o <<"\"">>]
    \o command
    \o service

NoService == << >>
Service(s) == << T(s) >>

\* a context.run call that went through docker_compose()
IsCompose(line) == Len(line) > 0 /\ line[1] = T("docker compose")

\* the words docker_compose() appended after the compose files
ComposeArgs(files, line) == Words(SubSeq(line, 4 + Len(files), Len(line)))

-----------------------------------------------------------------------------
(* What a stretch of a task does: the context.run calls it makes in order, *)
(* the exception it raises once they have returned ("none" if none), and   *)
(* where the task continues otherwise.                                     *)

Plan(cmds, raise, next) == [cmds |-> cmds, raise |-> raise, next |-> next]

\* the exceptions, by message (written without the back quotes of the source)
ErrBothInputAndQuery == "ValueError: Cannot specify both, input_file and query arguments"
ErrOutputNeedsInput == "ValueError: output_file argument requires input_file or query argument"
ErrUnsupportedBackend == "ValueError: Unsupported database backend."
ErrNoVolumesAndImport == "ValueError: Cannot specify --no-volumes and --import-db-file arguments at the same time."
ErrFileNotFound == "ValueError: File not found"
ErrInvalidTruthy == "ValueError: Invalid truthy value"
\* context.run raises when the command exits with a non-zero code
ErrUnexpectedExit == "UnexpectedExit"

\* start(context, service)
start_line(files, service) == docker_compose(files, <<T("up --detach")>>, Service(service))

\* _await_healthy_service: the query for the container id
ps_q_line(files, service) == docker_compose(files, <<<<"ps -q -- ", service>>>>, NoService)

\* _await_healthy_container: one health poll
inspect_line(container_id) ==
    << <<"docker inspect --format='{{.State.Health.Status}}' ", container_id>> >>

Or(a, b) == IF a # "" THEN a ELSE b

(* run_command *)

Nautobot == <<"n","a","u","t","o","b","o","t">>
NautobotWorker == Nautobot \o <<"-","w","o","r","k","e","r">>
Db == <<"d","b">>
Docs == <<"d","o","c","s">>

\* result.stdout of `ps --services`: one service name per line
RECURSIVE Stdout(_)
Stdout(lines) ==
    IF lines = <<>> THEN <<>> ELSE Head(lines) \o <<"\n">> \o Stdout(Tail(lines))

run_command_both(files, loc, command, services) ==
    LET truthy == is_truthy(loc) IN
    IF truthy.raised # "none" THEN Plan(<<>>, truthy.raised, "done")
    ELSE
        Plan(<< <<T(command)>>,
                docker_compose(files, <<T("ps --services --filter status=running")>>, NoService),
                docker_compose(files,
                    IF Contains(Nautobot, Stdout(services))
                    THEN << <<"exec nautobot ", command>> >>
                    ELSE << <<"run --rm --entrypoint '", command, "' nautobot">> >>,
                    NoService) >>,
             "none", "done")

run_command(files, loc, command, services) ==
    LET truthy == is_truthy(loc) IN
    IF truthy.raised # "none" THEN Plan(<<>>, truthy.raised, "done")
    ELSE IF truthy.value THEN Plan(<< <<T(command)>> >>, "none", "done")
    ELSE
        Plan(<< docker_compose(files, <<T("ps --services --filter status=running")>>, NoService),
                docker_compose(files,
                    IF Contains(Nautobot, Stdout(services))
                    THEN << <<"exec nautobot ", command>> >>
                    ELSE << <<"run --rm --entrypoint '", command, "' nautobot">> >>,
                    NoService) >>,
             "none", "done")

(* stop *)

stop_bare(files, service) ==
    Plan(<< docker_compose(files, <<T("stop")>>, Service(service)) >>, "none", "done")

stop(files, service) ==
    Plan(<< docker_compose(files,
                <<T(IF service # "" THEN "stop" ELSE "down --remove-orphans")>>,
                Service(service)) >>,
         "none", "done")

(* start *)

start(files, service) == Plan(<< start_line(files, service) >>, "none", "done")

(* dbshell *)

dbshell_backend(files, db_name) ==
    IF _is_compose_included(files, "mysql") THEN
        << T("mysql"), T("--user=$MYSQL_USER"), T("--password=$MYSQL_PASSWORD"),
           <<"--database=", Or(db_name, "$MYSQL_DATABASE")>> >>
    ELSE
        << T("psql"), T("--username=$POSTGRES_USER"),
           <<"--dbname=", Or(db_name, "$POSTGRES_DB")>> >>

dbshell_command(files, db_name, input_file, output_file, query) ==
    << T("exec"), T(IF query # "" THEN "--env=_SQL_QUERY" ELSE ""), T("-- db sh -c '") >>
    \o dbshell_backend(files, db_name)
    \o << T("'"),
          T(IF query # "" THEN "<<<\"$_SQL_QUERY\"" ELSE ""),
          IF input_file # "" THEN <<"< '", input_file, "'">> ELSE T(""),
          IF output_file # "" THEN <<"> '", output_file, "'">> ELSE T("") >>

dbshell_no_output_check(files, db_name, input_file, output_file, query) ==
    IF input_file # "" /\ query # "" THEN Plan(<<>>, ErrBothInputAndQuery, "done")
    ELSE IF ~ (_is_compose_included(files, "mysql") \/ _is_compose_included(files, "postgres"))
    THEN Plan(<<>>, ErrUnsupportedBackend, "done")
    ELSE Plan(<< docker_compose(files,
                    dbshell_command(files, db_name, input_file, output_file, query),
                    NoService) >>,
              "none", "done")

dbshell_no_both_check(files, db_name, input_file, output_file, query) ==
    IF output_file # "" /\ ~ (input_file # "" \/ query # "")
    THEN Plan(<<>>, ErrOutputNeedsInput, "done")
    ELSE IF ~ (_is_compose_included(files, "mysql") \/ _is_compose_included(files, "postgres"))
    THEN Plan(<<>>, ErrUnsupportedBackend, "done")
    ELSE Plan(<< docker_compose(files,
                    dbshell_command(files, db_name, input_file, output_file, query),
                    NoService) >>,
              "none", "done")

dbshell(files, db_name, input_file, output_file, query) ==
    IF input_file # "" /\ query # "" THEN Plan(<<>>, ErrBothInputAndQuery, "done")
    ELSE IF output_file # "" /\ ~ (input_file # "" \/ query # "")
    THEN Plan(<<>>, ErrOutputNeedsInput, "done")
    ELSE IF ~ (_is_compose_included(files, "mysql") \/ _is_compose_included(files, "postgres"))
    THEN Plan(<<>>, ErrUnsupportedBackend, "done")
    ELSE Plan(<< docker_compose(files,
                    dbshell_command(files, db_name, input_file, output_file, query),
                    NoService) >>,
              "none", "done")

(* import_db *)

\* up to the container id query of _await_healthy_service
import_db(files) ==
    Plan(<< docker_compose(files, <<T("stop -- nautobot worker beat")>>, NoService),
            start_line(files, "db"),
            ps_q_line(files, "db") >>,
         "none", "await")

import_db_command(files, db_name, input_file) ==
    << T("exec -- db sh -c '") >>
    \o (IF _is_compose_included(files, "mysql") THEN
            LET db == Or(db_name, "$MYSQL_DATABASE") IN
            << T("mysql --user root --password=$MYSQL_ROOT_PASSWORD"),
               T("--execute=\""),
               <<"DROP DATABASE IF EXISTS ", db, ";">>,
               <<"CREATE DATABASE ", db, ";">>,
               IF db = "$MYSQL_DATABASE" THEN T("")
               ELSE <<"GRANT ALL PRIVILEGES ON ", db, ".* TO $MYSQL_USER; FLUSH PRIVILEGES;">>,
               T("\""), T("&&"), T("mysql"),
               <<"--database=", db>>,
               T("--user=$MYSQL_USER"), T("--password=$MYSQL_PASSWORD") >>
        ELSE
            LET db == Or(db_name, "$POSTGRES_DB") IN
            << <<"dropdb --if-exists --user=$POSTGRES_USER ", db, " &&">>,
               <<"createdb --user=$POSTGRES_USER ", db, " &&">>,
               <<"psql --user=$POSTGRES_USER --dbname=", db>> >>)
    \o << T("'"), <<"< '", input_file, "'">> >>

import_db_load_any_backend(files, db_name, input_file) ==
    Plan(<< docker_compose(files, import_db_command(files, db_name, input_file), NoService) >>,
         "none", "done")

\* from the backend test to the end of the task
import_db_load(files, db_name, input_file) ==
    IF ~ (_is_compose_included(files, "mysql") \/ _is_compose_included(files, "postgres"))
    THEN Plan(<<>>, ErrUnsupportedBackend, "done")
    ELSE Plan(<< docker_compose(files, import_db_command(files, db_name, input_file), NoService) >>,
              "none", "done")

(* backup_db *)

backup_db(files) ==
    Plan(<< start_line(files, "db"), ps_q_line(files, "db") >>, "none", "await")

backup_db_command(files, db_name, output_file, readable) ==
    << T("exec -- db sh -c '") >>
    \o (IF _is_compose_included(files, "mysql") THEN
            << T("mysqldump"), T("--user=root"), T("--password=$MYSQL_ROOT_PASSWORD"),
               T(IF readable THEN "--skip-extended-insert" ELSE ""),
               T(Or(db_name, "$MYSQL_DATABASE")) >>
        ELSE
            << T("pg_dump"), T("--username=$POSTGRES_USER"),
               <<"--dbname=", Or(db_name, "$POSTGRES_DB")>>,
               T(IF readable THEN "--inserts" ELSE "") >>)
    \o << T("'"), <<"> '", output_file, "'">> >>

backup_db_dump(files, db_name, output_file, readable) ==
    IF ~ (_is_compose_included(files, "mysql") \/ _is_compose_included(files, "postgres"))
    THEN Plan(<<>>, ErrUnsupportedBackend, "done")
    ELSE Plan(<< docker_compose(files,
                    backup_db_command(files, db_name, output_file, readable), NoService) >>,
              "none", "done")

(* destroy *)

down_line(files, volumes) ==
    docker_compose(files,
        << <<"down --remove-orphans ", IF volumes THEN "--volumes" ELSE "">> >>,
        NoService)

import_run_line(files, import_db_file) ==
    docker_compose(files,
        << T("run"), T("--rm"), T("--detach"),
           <<"--volume='", "/cwd/", import_db_file, ":/docker-entrypoint-initdb.d/dump.sql'">>,
           T("--"), T("db") >>,
        NoService)

destroy_no_volumes_check(files, volumes, import_db_file, is_file) ==
    IF import_db_file = "" THEN Plan(<< down_line(files, volumes) >>, "none", "done")
    ELSE IF ~ is_file THEN Plan(<< down_line(files, volumes) >>, ErrFileNotFound, "done")
    ELSE Plan(<< down_line(files, volumes), import_run_line(files, import_db_file) >>,
              "none", "await")

\* up to the start of the database import container; is_file is
\* Path(import_db_file).absolute().is_file()
destroy(files, volumes, import_db_file, is_file) ==
    IF import_db_file = "" THEN Plan(<< down_line(files, volumes) >>, "none", "done")
    ELSE IF ~ volumes THEN Plan(<< down_line(files, volumes) >>, ErrNoVolumesAndImport, "done")
    ELSE IF ~ is_file THEN Plan(<< down_line(files, volumes) >>, ErrFileNotFound, "done")
    ELSE Plan(<< down_line(files, volumes), import_run_line(files, import_db_file) >>,
              "none", "await")

\* after the import container is healthy
destroy_stop(container_id) ==
    Plan(<< << <<"docker stop ", container_id>> >> >>, "none", "done")

-----------------------------------------------------------------------------
(* The task runner as a state machine *)

NoTask ==
    [name |-> "none", db_name |-> "", input_file |-> "", output_file |-> "",
     query |-> "", service |-> "", volumes |-> TRUE, import_db_file |-> "",
     is_file |-> FALSE, command |-> "", readable |-> TRUE, container_id |-> "",
     health |-> << >>, failfast |-> FALSE, keepdb |-> FALSE, lint_only |-> FALSE,
     step |-> 0, passed |-> FALSE]

\* values of the `local` setting: the default, and what invoke.yml or the
\* INVOKE_NAUTOBOT_SSOT_LOCAL environment variable may hold
Locals ==
    { Bool(FALSE), Bool(TRUE), Str(<<"y","e","s">>), Str(<<"T","r","u","e">>),
      Str(<<"N","o">>), Str(<<"0">>), Str(<<"m","a","y","b","e">>), Str(<<>>) }

DbNames == {"", "mydb"}
InputFiles == {"", "in.sql"}
OutputFiles == {"", "out.sql"}
Queries == {"", "SELECT 1"}
ServiceArgs == {"", "db", "nautobot"}
ContainerIds == {"c0ffee"}

\* the running services `ps --services --filter status=running` may report
ServiceLists ==
    { << >>, <<Db>>, <<Nautobot>>, <<Db, Nautobot>>, <<NautobotWorker>>,
      <<Db, NautobotWorker>>, <<Db, Docs>>, <<Nautobot, NautobotWorker>> }

\* The task carries out a plan: it makes the plan's context.run calls in
\* order; failed = 0 when every call returns, failed = j when the j-th call
\* exits non-zero, which raises and ends the task.
Step(plan, failed) ==
    /\ failed \in 0..Len(plan.cmds)
    /\ log' = log \o SubSeq(plan.cmds, 1, IF failed = 0 THEN Len(plan.cmds) ELSE failed)
    /\ err' = IF failed > 0 THEN ErrUnexpectedExit ELSE plan.raise
    /\ pc' = IF failed > 0 \/ plan.raise # "none" THEN "done" ELSE plan.next

Dbshell ==
    /\ pc = "idle"
    /\ \E db_name \in DbNames, input_file \in InputFiles,
          output_file \in OutputFiles, query \in Queries, failed \in 0..1 :
        /\ task' = [NoTask EXCEPT !.name = "dbshell", !.db_name = db_name,
                        !.input_file = input_file, !.output_file = output_file,
                        !.query = query]
        /\ Step(dbshell(compose_files, db_name, input_file, output_file, query), failed)
    /\ UNCHANGED <<truthyVars, migrationVars, local, compose_files, seen, polls>>

ImportDb ==
    /\ pc = "idle"
    /\ \E db_name \in DbNames, container_id \in ContainerIds, failed \in 0..3 :
        /\ task' = [NoTask EXCEPT !.name = "import_db", !.db_name = db_name,
                        !.input_file = "dump.sql", !.container_id = container_id]
        /\ Step(import_db(compose_files), failed)
    /\ UNCHANGED <<truthyVars, migrationVars, local, compose_files, seen, polls>>

ImportDbLoad ==
    /\ pc = "healthy"
    /\ task.name = "import_db"
    /\ \E failed \in 0..1 :
        Step(import_db_load(compose_files, task.db_name, task.input_file), failed)
    /\ UNCHANGED <<truthyVars, migrationVars, local, compose_files, task, seen, polls>>

BackupDb ==
    /\ pc = "idle"
    /\ \E db_name \in DbNames, readable \in BOOLEAN,
          container_id \in ContainerIds, failed \in 0..2 :
        /\ task' = [NoTask EXCEPT !.name = "backup_db", !.db_name = db_name,
                        !.output_file = "dump.sql", !.readable = readable,
                        !.container_id = container_id]
        /\ Step(backup_db(compose_files), failed)
    /\ UNCHANGED <<truthyVars, migrationVars, local, compose_files, seen, polls>>

BackupDbDump ==
    /\ pc = "healthy"
    /\ task.name = "backup_db"
    /\ \E failed \in 0..1 :
        Step(backup_db_dump(compose_files, task.db_name, task.output_file, task.readable),
             failed)
    /\ UNCHANGED <<truthyVars, migrationVars, local, compose_files, task, seen, polls>>

Destroy ==
    /\ pc = "idle"
    /\ \E volumes \in BOOLEAN, import_db_file \in {"", "dump.sql"}, is_file \in BOOLEAN,
          container_id \in ContainerIds, failed \in 0..2 :
        /\ task' = [NoTask EXCEPT !.name = "destroy", !.volumes = volumes,
                        !.import_db_file = import_db_file, !.is_file = is_file,
                        !.container_id = container_id]
        /\ Step(destroy(compose_files, volumes, import_db_file, is_file), failed)
    /\ UNCHANGED <<truthyVars, migrationVars, local, compose_files, seen, polls>>

DestroyStop ==
    /\ pc = "healthy"
    /\ task.name = "destroy"
    /\ \E failed \in 0..1 : Step(destroy_stop(task.container_id), failed)
    /\ UNCHANGED <<truthyVars, migrationVars, local, compose_files, task, seen, polls>>

\* _await_healthy_container leaves its loop on this stdout only
is_healthy_unless_unhealthy(status) == status # "unhealthy"

is_healthy(status) == status = "healthy"

\* one turn of the loop of _await_healthy_container; task.health keeps the
\* stdout of every poll that returned
AwaitHealthy ==
    /\ pc = "await"
    /\ polls < MaxPolls
    /\ polls' = polls + 1
    /\ log' = Append(log, inspect_line(task.container_id))
    /\ \E status \in {"healthy", "starting", "unhealthy", "UnexpectedExit"} :
        /\ err' = IF status = "UnexpectedExit" THEN ErrUnexpectedExit ELSE "none"
        /\ pc' = CASE status = "UnexpectedExit" -> "done"
                   [] is_healthy(status) -> "healthy"
                   [] OTHER -> "await"
        /\ task' = IF status = "UnexpectedExit" THEN task
                   ELSE [task EXCEPT !.health = Append(@, status)]
    /\ UNCHANGED <<truthyVars, migrationVars, local, compose_files, seen>>

\* a task that hands one command to run_command
RunCommandTask(name, command) ==
    /\ pc = "idle"
    /\ task' = [NoTask EXCEPT !.name = name, !.command = command]
    /\ \E services \in ServiceLists, failed \in 0..2 :
        LET plan == run_command(compose_files, local, command, services) IN
        /\ Step(plan, failed)
        /\ seen' = IF Len(plan.cmds) = 2 /\ failed # 1 THEN services ELSE <<>>
    /\ UNCHANGED <<truthyVars, migrationVars, local, compose_files, polls>>

Cli == RunCommandTask("cli", "bash")

Migrate == RunCommandTask("migrate", "nautobot-server migrate")

Stop ==
    /\ pc = "idle"
    /\ \E service \in ServiceArgs, failed \in 0..1 :
        /\ task' = [NoTask EXCEPT !.name = "stop", !.service = service]
        /\ Step(stop(compose_files, service), failed)
    /\ UNCHANGED <<truthyVars, migrationVars, local, compose_files, seen, polls>>

Start ==
    /\ pc = "idle"
    /\ \E service \in ServiceArgs, failed \in 0..1 :
        /\ task' = [NoTask EXCEPT !.name = "start", !.service = service]
        /\ Step(start(compose_files, service), failed)
    /\ UNCHANGED <<truthyVars, migrationVars, local, compose_files, seen, polls>>

-----------------------------------------------------------------------------
(* tests *)

\* the command each check hands to run_command, with the arguments tests()
\* passes
black_command(autoformat) ==
    IF autoformat THEN "black ." ELSE "black --check --diff ."

\* ruff(context): action "lint", fix False, output_format "text"
ruff_command == "ruff check --output-format text ."

flake8_command == "flake8 . --config .flake8"

bandit_command == "bandit --recursive . --configfile .bandit.yml"

yamllint_command == "yamllint . --format standard"

lock_command(check) == IF check THEN "poetry check" ELSE "poetry lock --no-update"

check_migrations_command == "nautobot-server makemigrations --dry-run --check"

pylint_command ==
    "pylint --init-hook \"import nautobot; nautobot.setup()\" --rcfile pyproject.toml nautobot_ssot"

build_and_check_docs_command == "mkdocs build --no-directory-urls --strict"

\* unittest(context, failfast=..., keepdb=...): label and buffer at their defaults
unittest_command(keepdb, failfast) ==
    CASE keepdb /\ failfast ->
            "coverage run --module nautobot.core.cli test nautobot_ssot --keepdb --failfast --buffer"
      [] keepdb /\ ~ failfast ->
            "coverage run --module nautobot.core.cli test nautobot_ssot --keepdb --buffer"
      [] ~ keepdb /\ failfast ->
            "coverage run --module nautobot.core.cli test nautobot_ssot --failfast --buffer"
      [] OTHER ->
            "coverage run --module nautobot.core.cli test nautobot_ssot --buffer"

unittest_coverage_command ==
    "coverage report --skip-covered --include 'nautobot_ssot/*' --omit *migrations*"

tests_steps_pylint_first(failfast, keepdb, lint_only) ==
    << pylint_command, black_command(FALSE), ruff_command, flake8_command,
       bandit_command, yamllint_command, lock_command(TRUE),
       check_migrations_command, build_and_check_docs_command >>
    \o (IF lint_only THEN << >>
        ELSE << unittest_command(keepdb, failfast), unittest_coverage_command >>)

\* the run_command calls of tests(), in the order of its statements
tests_steps(failfast, keepdb, lint_only) ==
    << black_command(FALSE), ruff_command, flake8_command, bandit_command,
       yamllint_command, lock_command(TRUE), check_migrations_command,
       pylint_command, build_and_check_docs_command >>
    \o (IF lint_only THEN << >>
        ELSE << unittest_command(keepdb, failfast), unittest_coverage_command >>)

\* tests(): the test of `local` and the start of the containers
tests_start(files, loc) ==
    LET truthy == is_truthy(loc) IN
    IF truthy.raised # "none" THEN Plan(<<>>, truthy.raised, "done")
    ELSE IF truthy.value THEN Plan(<<>>, "none", "tests")
    ELSE Plan(<< start_line(files, "") >>, "none", "tests")

Tests ==
    /\ pc = "idle"
    /\ \E failfast \in BOOLEAN, keepdb \in BOOLEAN, lint_only \in BOOLEAN,
          failed \in 0..1 :
        /\ task' = [NoTask EXCEPT !.name = "tests", !.failfast = failfast,
                        !.keepdb = keepdb, !.lint_only = lint_only]
        /\ Step(tests_start(compose_files, local), failed)
    /\ UNCHANGED <<truthyVars, migrationVars, local, compose_files, seen, polls>>

\* what the query of run_command may report while tests() runs: the
\* containers it started, with or without the nautobot service still up
TestsServiceLists == { <<Db, Nautobot>>, <<Db>> }

\* the next check of tests(); after the last one returns, the closing
\* print("All tests have passed!") is made (task.passed)
TestsStep ==
    /\ pc = "tests"
    /\ \E services \in TestsServiceLists, failed \in 0..2 :
        LET steps == tests_steps(task.failfast, task.keepdb, task.lint_only)
            k == task.step + 1
            called == run_command(compose_files, local, steps[k], services)
            plan == [called EXCEPT !.next = IF k = Len(steps) THEN "done" ELSE "tests"]
            returned == failed = 0 /\ plan.raise = "none"
        IN  /\ Step(plan, failed)
            /\ seen' = IF Len(plan.cmds) = 2 /\ failed # 1 THEN services ELSE <<>>
            /\ task' = [task EXCEPT !.step = IF returned THEN k ELSE @,
                                    !.passed = returned /\ k = Len(steps)]
    /\ UNCHANGED <<truthyVars, migrationVars, local, compose_files, polls>>

-----------------------------------------------------------------------------
(* Specifications *)

TaskIdle ==
    /\ task = NoTask
    /\ pc = "idle"
    /\ log = << >>
    /\ err = "none"
    /\ seen = << >>
    /\ polls = 0

\* the task runner: one invocation under some configuration
Init ==
    /\ arg = Bool(FALSE)
    /\ ret = NotCalled
    /\ schemas = << [n \in FieldNames |-> TextField(TRUE)] >>
    /\ local \in Locals
    /\ compose_files \in ComposeFileLists
    /\ TaskIdle

Next ==
    \/ Dbshell
    \/ ImportDb
    \/ ImportDbLoad
    \/ BackupDb
    \/ BackupDbDump
    \/ Destroy
    \/ DestroyStop
    \/ AwaitHealthy
    \/ Cli
    \/ Migrate
    \/ Stop
    \/ Start

Spec == Init /\ [][Next]_vars

\* is_truthy applied to one argument
InitTruthy ==
    /\ arg \in TruthyArgs
    /\ ret = NotCalled
    /\ schemas = << [n \in FieldNames |-> TextField(TRUE)] >>
    /\ local = Bool(FALSE)
    /\ compose_files = DefaultComposeFiles
    /\ TaskIdle

NextTruthy == CallIsTruthy

SpecTruthy == InitTruthy /\ [][NextTruthy]_vars

\* the migration applied, and applied again, from any schema state
InitMigration ==
    /\ arg = Bool(FALSE)
    /\ ret = NotCalled
    /\ schemas \in { <<s>> : s \in SchemaStates }
    /\ local = Bool(FALSE)
    /\ compose_files = DefaultComposeFiles
    /\ TaskIdle

NextMigration == ApplyMigration

SpecMigration == InitMigration /\ [][NextMigration]_vars

\* the tests task: one invocation under some value of `local`
InitTests ==
    /\ arg = Bool(FALSE)
    /\ ret = NotCalled
    /\ schemas = << [n \in FieldNames |-> TextField(TRUE)] >>
    /\ local \in Locals
    /\ compose_files = DefaultComposeFiles
    /\ TaskIdle

NextTests ==
    \/ Tests
    \/ TestsStep

SpecTests == InitTests /\ [][NextTests]_vars

-----------------------------------------------------------------------------
(* Properties *)

ValueErrors ==
    { ErrBothInputAndQuery, ErrOutputNeedsInput, ErrUnsupportedBackend,
      ErrNoVolumesAndImport, ErrFileNotFound, ErrInvalidTruthy }

NoBackend ==
    \A i \in 1..Len(compose_files) :
        compose_files[i] \notin {ComposeFile("mysql"), ComposeFile("postgres")}

\* a command line that runs a database client in the db container
IsDbClient(line) ==
    \E i \in 1..Len(line) :
        \/ line[i] \in { T("-- db sh -c '"), T("exec -- db sh -c '"), T("mysql"), T("psql"),
                         T("mysqldump"), T("pg_dump"),
                         T("mysql --user root --password=$MYSQL_ROOT_PASSWORD") }
        \/ line[i][1] \in { "dropdb --if-exists --user=$POSTGRES_USER ",
                            "createdb --user=$POSTGRES_USER " }

\* a command line that starts the database import container of destroy
IsImportRun(line) ==
    \E i \in 1..Len(line) : line[i] = T("--detach") \/ line[i][1] = "--volume='"

RunCommandTasks == {"cli", "migrate"}

\* C1: for a string argument is_truthy returns True exactly when the
\* lower-cased argument is one of y, yes, t, true, on, 1, returns False
\* exactly when it is one of n, no, f, false, off, 0, and raises ValueError
\* for every other string.
C1_IsTruthyContract ==
    (ret # NotCalled /\ arg.kind = "str") =>
        LET low == Lower(arg.s)
            yes == { <<"y">>, <<"y","e","s">>, <<"t">>, <<"t","r","u","e">>,
                     <<"o","n">>, <<"1">> }
            no == { <<"n">>, <<"n","o">>, <<"f">>, <<"f","a","l","s","e">>,
                    <<"o","f","f">>, <<"0">> }
        IN  /\ (ret.raised = "none" /\ ret.value) <=> low \in yes
            /\ (ret.raised = "none" /\ ~ ret.value) <=> low \in no
            /\ (ret.raised = "ValueError: Invalid truthy value") <=> low \notin (yes \cup no)

C1_Witness ==
    /\ arg = Str(<<"Y","e","s">>)
    /\ ret = Returned(TRUE)

\* C2: dbshell with a non-empty input_file and a non-empty query raises
\* ValueError, whatever db_name, output_file and compose_files are, and
\* runs no docker compose command.
C2_DbshellRejectsInputAndQuery ==
    (task.name = "dbshell" /\ task.input_file # "" /\ task.query # "") =>
        /\ pc = "done"
        /\ err \in ValueErrors
        /\ log = << >>

C2_Witness ==
    /\ task.name = "dbshell"
    /\ task.input_file # ""
    /\ task.query # ""
    /\ task.output_file # ""
    /\ ~ NoBackend
    /\ err = ErrBothInputAndQuery

\* C3: an input-validation error (mutually exclusive options, unsupported
\* database backend, invalid truthy value of `local`) is raised before the
\* task has made any external invocation.
C3_ValidationBeforeAnyCommand ==
    err \in { ErrBothInputAndQuery, ErrOutputNeedsInput, ErrUnsupportedBackend,
              ErrNoVolumesAndImport, ErrInvalidTruthy }
        => log = << >>

C6_MigrationIdempotent ==
    LET target ==
            [n \in {"message", "object_repr"} |->
                IF n = "message"
                THEN [type |-> "TextField", blank |-> TRUE, default |-> "NOT_PROVIDED",
                      editable |-> TRUE, max_length |-> 0]
                ELSE [type |-> "TextField", blank |-> TRUE, default |-> "",
                      editable |-> FALSE, max_length |-> 0]]
    IN  /\ (Len(schemas) >= 2 /\ schemas[1] = target) => schemas[2] = schemas[1]
        /\ \A k \in 3..Len(schemas) : schemas[k] = schemas[2]

C6_Witness ==
    /\ Len(schemas) = 3
    /\ schemas[1] = Migration(schemas[1])
    /\ schemas[1]["object_repr"].editable = FALSE

\* C7: dbshell with a non-empty output_file and neither input_file nor
\* query raises ValueError and runs no command, so an output redirection
\* appears in an issued command only next to an input file or a query.
C7_OutputNeedsInputOrQuery ==
    task.name = "dbshell" =>
        /\ (task.output_file # "" /\ task.input_file = "" /\ task.query = "") =>
              /\ pc = "done"
              /\ err \in ValueErrors
              /\ log = << >>
        /\ \A i \in 1..Len(log) :
              (\E k \in 1..Len(log[i]) : log[i][k][1] = "> '") =>
                  \E k \in 1..Len(log[i]) :
                      \/ log[i][k][1] = "< '"
                      \/ log[i][k] = T("<<<\"$_SQL_QUERY\"")

C7_Witness ==
    /\ task.name = "dbshell"
    /\ task.output_file # ""
    /\ task.input_file = ""
    /\ task.query = ""
    /\ ~ NoBackend
    /\ err = ErrOutputNeedsInput

\* C8: run_command runs the command on the host or in the nautobot
\* container, never both: with `local` truthy it makes exactly one
\* context.run call, the command unchanged, and no docker compose call;
\* with `local` falsy every call goes through docker compose and the bare
\* command is never run on the host.
C8_LocalOrContainer ==
    task.name \in RunCommandTasks =>
        /\ is_truthy(local) = Returned(TRUE) => log = << << T(task.command) >> >>
        /\ is_truthy(local) = Returned(FALSE) =>
              \A i \in 1..Len(log) : IsCompose(log[i]) /\ log[i] # << T(task.command) >>
        /\ ~ \E i, j \in 1..Len(log) : IsCompose(log[i]) /\ ~ IsCompose(log[j])

C8_Witness ==
    /\ task.name = "migrate"
    /\ local = Str(<<"T","r","u","e">>)
    /\ log = << << T("nautobot-server migrate") >> >>
    /\ err = "none"

\* C9: in non-local mode run_command issues `exec nautobot <command>` if and
\* only if the service named nautobot is among the running services the
\* query reported, and `run --rm --entrypoint '<command>' nautobot`
\* otherwise, whatever other services are running.
C9_ExecIffNautobotRunning ==
    (task.name \in RunCommandTasks /\ Len(log) = 2 /\ IsCompose(log[1])) =>
        LET running == \E i \in 1..Len(seen) : seen[i] = Nautobot IN
        ComposeArgs(compose_files, log[2]) =
            IF running
            THEN << <<"exec nautobot ", task.command>> >>
            ELSE << <<"run --rm --entrypoint '", task.command, "' nautobot">> >>

\* C10: stop with a service issues `stop <service>`; stop without a service
\* issues `down --remove-orphans` and never a bare `stop`.
C10_StopServiceOrDown ==
    task.name = "stop" =>
        /\ pc = "done"
        /\ Len(log) = 1
        /\ IsCompose(log[1])
        /\ ComposeArgs(compose_files, log[1]) =
              IF task.service # ""
              THEN << T("stop"), T(task.service) >>
              ELSE << T("down --remove-orphans") >>

C10_Witness ==
    /\ task.name = "stop"
    /\ task.service = ""
    /\ Len(log) = 1
    /\ err = "none"


\* the commands the checks of a run of tests() were handed, in the order
\* they were issued, read back from the log: the bare command on the host,
\* or the command inside `exec nautobot ...` / `run --rm --entrypoint '...'`
\* after the start of the containers and each query of the running services
ChecksIssued ==
    IF is_truthy(local) = Returned(TRUE)
    THEN [j \in 1..Len(log) |-> log[j][1][1]]
    ELSE [j \in 1..((Len(log) - 1) \div 2) |->
            ComposeArgs(compose_files, log[2 * j + 1])[1][2]]

C11_StateOrder ==
    task.name = "tests" =>
        LET linters ==
                << "black --check --diff .",
                   "ruff check --output-format text .",
                   "flake8 . --config .flake8",
                   "bandit --recursive . --configfile .bandit.yml",
                   "yamllint . --format standard",
                   "poetry check",
                   "nautobot-server makemigrations --dry-run --check",
                   "pylint --init-hook \"import nautobot; nautobot.setup()\" --rcfile pyproject.toml nautobot_ssot",
                   "mkdocs build --no-directory-urls --strict" >>
            unit ==
                { "coverage run --module nautobot.core.cli test nautobot_ssot --keepdb --failfast --buffer",
                  "coverage run --module nautobot.core.cli test nautobot_ssot --keepdb --buffer",
                  "coverage run --module nautobot.core.cli test nautobot_ssot --failfast --buffer",
                  "coverage run --module nautobot.core.cli test nautobot_ssot --buffer" }
            report ==
                "coverage report --skip-covered --include 'nautobot_ssot/*' --omit *migrations*"
            selected == IF task.lint_only THEN 9 ELSE 11
            ran == ChecksIssued
        IN  \* containers first when not local, then only queries and checks
            /\ (is_truthy(local) = Returned(FALSE) /\ Len(log) >= 1) =>
                  /\ ComposeArgs(compose_files, log[1]) = << T("up --detach") >>
                  /\ \A j \in 2..Len(log) :
                        /\ IsCompose(log[j])
                        /\ (j % 2 = 0) =>
                              ComposeArgs(compose_files, log[j])
                                  = << T("ps --services --filter status=running") >>
            /\ is_truthy(local) = Returned(TRUE) =>
                  \A j \in 1..Len(log) : log[j] = << T(ran[j]) >>
            \* the fixed order, the unit tests last and only without lint_only
            /\ Len(ran) <= selected
            /\ \A j \in 1..Len(ran) :
                  /\ j <= 9 => ran[j] = linters[j]
                  /\ j = 10 => ran[j] \in unit
                  /\ j = 11 => ran[j] = report
            \* the closing message only after every selected step returned
            /\ task.passed => (err = "none" /\ pc = "done" /\ Len(ran) = selected)
            /\ err # "none" => (pc = "done" /\ ~ task.passed)

\* C11: tests() runs its steps in a fixed order: the containers are started
\* first when `local` is falsy; then black, ruff, flake8, bandit, yamllint,
\* poetry check, the migrations check, pylint and mkdocs build; unittest and
\* then unittest_coverage last and only when lint_only is false; once a step
\* has raised no later step runs, so "All tests have passed!" is printed only
\* after every selected step has returned without error.
C11_TestsOrder ==
    /\ [] C11_StateOrder
    /\ [][err # "none" => (log' = log /\ task' = task /\ err' = err)]_vars

C11_Witness ==
    /\ task.name = "tests"
    /\ local = Bool(FALSE)
    /\ ~ task.lint_only
    /\ task.failfast
    /\ task.passed
    /\ Len(log) = 23
    /\ \E j \in 1..Len(log) : ComposeArgs(compose_files, log[j])[1][1] = "run --rm --entrypoint '"


\* C12: import_db stops the nautobot, worker and beat services before it
\* starts the db service, and issues its drop/create/load command only after
\* a health poll of the db container has returned "healthy"; backup_db
\* issues its dump command only after the db container was seen healthy.
C12_HealthyBeforeDbCommand ==
    LET IsStop(line) ==
            ComposeArgs(compose_files, line) = << T("stop -- nautobot worker beat") >>
        IsStartDb(line) ==
            ComposeArgs(compose_files, line) = << T("up --detach"), T("db") >>
        IsPoll(line) == line = inspect_line(task.container_id)
    IN  /\ task.name = "import_db" =>
              \A j \in 1..Len(log) :
                  IsStartDb(log[j]) => \E i \in 1..(j - 1) : IsStop(log[i])
        /\ task.name \in {"import_db", "backup_db"} =>
              \A i \in 1..Len(log) :
                  IsDbClient(log[i]) =>
                      \* the poll right before the command returned "healthy"
                      /\ i > 1
                      /\ IsPoll(log[i - 1])
                      /\ Cardinality({ j \in 1..(i - 1) : IsPoll(log[j]) }) = Len(task.health)
                      /\ task.health[Len(task.health)] = "healthy"
                      \* and the db service was started before the polls
                      /\ \E j \in 1..(i - 1) :
                            /\ IsStartDb(log[j])
                            /\ \A k \in 1..j : ~ IsPoll(log[k])

C12_Witness ==
    /\ task.name = "import_db"
    /\ task.health = << "starting", "healthy" >>
    /\ IsDbClient(log[Len(log)])
    /\ pc = "done"
    /\ err = "none"

=============================================================================
